---------------------------- MODULE Spec2Model ----------------------------
(***************************************************************************)
(* Model of glycerine/json2msgpack: the msgpack "bin" frame header codec   *)
(* (writeMsgpackBinArrayHeader / DecodeMsgpackBinArrayHeader), the encode  *)
(* loop of json2msgpack, the line loop of jsonParseBench and the decode    *)
(* loop of msgpackParseBench.                                              *)
(*                                                                         *)
(* Bytes are the integers 0..255.  Go slices are TLA+ sequences, so Go's   *)
(* p[0] is p[1] here and p[a:b] is SubSeq(p, a+1, b).                      *)
(***************************************************************************)
EXTENDS Integers, Sequences, FiniteSets, TLC

VARIABLES
    \* ---- header codec harness (SpecHeader)
    hpc,        \* "start" | "written" | "decoded" | "rawdecoded"
    hl,         \* the uint32 length handed to writeMsgpackBinArrayHeader
    hs,         \* bytes that follow the header in the slice handed to the decoder
    hp,         \* an arbitrary slice handed to DecodeMsgpackBinArrayHeader
    hw,         \* the bytes the writer w received
    hres,       \* what DecodeMsgpackBinArrayHeader returned
    \* ---- json2msgpack and jsonParseBench (SpecEnc, SpecBench)
    epc,        \* "main" | "loop" | "exited"
    input,      \* the bytes of the input stream (never changes)
    endErr,     \* TRUE: the stream ends in a read error instead of io.EOF
    rest,       \* the bytes of the input stream not read yet
    InputPath,  \* cfg.InputPath
    OutputPath, \* cfg.OutputPath
    Input,      \* cfg.Input: "nil" | "stdin" | "file"
    Output,     \* cfg.Output: "nil" | "stdout" | "file"
    inOpen,     \* the file opened for cfg.Input is open
    outOpen,    \* the file created for cfg.Output is open
    defers,     \* the deferred calls of main, in the order of their defer statements
    buf,        \* the contents of the reusable bytes.Buffer of processFile
    lineNum,    \* lineNum of processFile
    out,        \* the bytes written to cfg.Output
    status,     \* the exit status of the process (-1 while it runs)
    panicked,   \* the process ended in a panic
    reported,   \* the number printed by jsonParseBench (-1: nothing printed)
    calls,      \* history: the lines handed to jsonToMsgp / jsonDecode, in order
    bufAtCall,  \* history: the contents of buf at the start of each jsonToMsgp call
    encs,       \* history: the msgpack encoding of each record that was encoded
    \* ---- msgpackParseBench (SpecDec)
    dpc,        \* "loop" | "returned" | "panicked"
    dstream,    \* the bytes of the input stream (never changes)
    drest,      \* the bytes of the input stream not read yet
    k,          \* k of processFile, the count it prints
    dstatus,    \* the exit status of the process (-1 while it runs)
    vals,       \* history: the []byte values the stream decoder returned, in order
    handed,     \* history: the slices handed to the payload decoder, in order
    failAt,     \* history: the number of values read when a frame first failed (0: none)
    kAtFail     \* history: k when a frame first failed

hvars == <<hpc, hl, hs, hp, hw, hres>>

evars == <<epc, input, endErr, rest, InputPath, OutputPath, Input, Output,
           inOpen, outOpen, defers, buf, lineNum, out, status, panicked,
           reported, calls, bufAtCall, encs>>

dvars == <<dpc, dstream, drest, k, dstatus, vals, handed, failAt, kAtFail>>

vars == <<hvars, evars, dvars>>

-----------------------------------------------------------------------------
(* Bounds of the model *)

\* how far around each boundary of the header table the lengths are taken
Spread == 2
\* longest byte sequence appended after a written header
MaxSuffix == 2
\* longest arbitrary slice handed to the header decoder
MaxRaw == 3
\* longest input stream of json2msgpack and jsonParseBench
MaxInput == 7
\* longest input stream of msgpackParseBench
MaxStream == 6

-----------------------------------------------------------------------------
(* Integer widths *)

(* A uint32, and the Go int that receives one, is written as a pair of     *)
(* 16-bit halves [hi, lo] standing for hi * 65536 + lo: the model checker's *)
(* integers are narrower than 2^32.  Go's int is 64 bits wide in this      *)
(* program (the comparison of an int with the constant 4294967295 in       *)
(* jsonToMsgp compiles only there), so int(x) of a uint8, uint16 or uint32 *)
(* x keeps the value, and headerSize + payloadSize never wraps.            *)
Half == 65536

Wide(n) == [hi |-> n \div Half, lo |-> n % Half]

\* l < n for a uint32 l and a constant n <= 65536
LessThan(l, n) == l.hi = 0 /\ (n = Half \/ l.lo < n)

\* uint8(l), uint16(l): conversion of a uint32 to a narrower unsigned integer
ToUint8(l) == l.lo % 256
ToUint16(l) == l.lo

\* h + n for a small int h and an int n
Plus(h, n) == [hi |-> n.hi + ((n.lo + h) \div Half), lo |-> (n.lo + h) % Half]

\* binary.BigEndian.PutUint16 / PutUint32: most significant byte first
PutUint16(v) == << (v \div 256) % 256, v % 256 >>
PutUint32(l) == PutUint16(l.hi) \o PutUint16(l.lo)

\* binary.BigEndian.Uint16 / Uint32
Uint16(b) == b[1] * 256 + b[2]
Uint32(b) == [hi |-> Uint16(SubSeq(b, 1, 2)), lo |-> Uint16(SubSeq(b, 3, 4))]

-----------------------------------------------------------------------------
(* The frame header codec *)

\* writeMsgpackBinArrayHeader(w, l): the bytes by[:nBytesAdded] written to w
writeMsgpackBinArrayHeader_OffByOne(l) ==
    IF LessThan(l, 256) \/ l = Wide(256) THEN <<196, ToUint8(l)>>
    ELSE IF LessThan(l, 65536) \/ l = Wide(65536) THEN <<197>> \o PutUint16(ToUint16(l))
    ELSE <<198>> \o PutUint32(l)

writeMsgpackBinArrayHeader(l) ==
    IF LessThan(l, 256) THEN <<196, ToUint8(l)>>                      \* 0xc4 msgpackBin8
    ELSE IF LessThan(l, 65536) THEN <<197>> \o PutUint16(ToUint16(l)) \* 0xc5 msgpackBin16
    ELSE <<198>> \o PutUint32(l)                                      \* 0xc6 msgpackBin32

\* The four named results of DecodeMsgpackBinArrayHeader; panicked is the
\* run-time panic of p[0] on an empty slice.
HeaderResult(h, n, e, pan) ==
    [headerSize |-> h, payloadSize |-> n, totalFrameSize |-> Plus(h, n),
     err |-> e, panicked |-> pan]

\* an early return: only err is set, the sizes keep their zero values
TooSmall == HeaderResult(0, Wide(0), "too small", FALSE)

DecodeMsgpackBinArrayHeader_LittleEndian(p) ==
    LET lenp == Len(p) IN
    IF lenp = 0 THEN HeaderResult(0, Wide(0), "nil", TRUE)
    ELSE IF p[1] = 196 THEN
        IF lenp < 2 THEN TooSmall
        ELSE HeaderResult(2, Wide(p[2]), "nil", FALSE)
    ELSE IF p[1] = 197 THEN
        IF lenp < 3 THEN TooSmall
        ELSE HeaderResult(3, Wide(Uint16(<<p[3], p[2]>>)), "nil", FALSE)
    ELSE IF p[1] = 198 THEN
        IF lenp < 5 THEN TooSmall
        ELSE HeaderResult(5, Uint32(<<p[5], p[4], p[3], p[2]>>), "nil", FALSE)
    ELSE HeaderResult(0, Wide(0), "nil", FALSE)

DecodeMsgpackBinArrayHeader(p) ==
    LET lenp == Len(p) IN
    IF lenp = 0 THEN HeaderResult(0, Wide(0), "nil", TRUE)   \* p[0]: index out of range
    ELSE IF p[1] = 196 THEN                                  \* case 0xc4
        IF lenp < 2 THEN TooSmall
        ELSE HeaderResult(2, Wide(p[2]), "nil", FALSE)
    ELSE IF p[1] = 197 THEN                                  \* case 0xc5
        IF lenp < 3 THEN TooSmall
        ELSE HeaderResult(3, Wide(Uint16(SubSeq(p, 2, 3))), "nil", FALSE)
    ELSE IF p[1] = 198 THEN                                  \* case 0xc6
        IF lenp < 5 THEN TooSmall
        ELSE HeaderResult(5, Uint32(SubSeq(p, 2, 5)), "nil", FALSE)
    \* the switch has no default case: the named results keep their zero
    \* values and the function returns them with a nil error
    ELSE HeaderResult(0, Wide(0), "nil", FALSE)

-----------------------------------------------------------------------------
(* Sequences of bytes of bounded length *)

SeqsUpTo(S, n) == UNION { [1..m -> S] : m \in 0..n }

\* lengths around every boundary of the header table, and the ends of uint32
Lengths ==
    (0 .. Spread)
    \cup ((256 - Spread) .. (256 + Spread))
    \cup ((65536 - Spread) .. (65536 + Spread))
    \cup {127, 128, 4660, 16777216, 305419896}

\* uint32 values: the lengths above, and those at the top of the range
Uint32Lengths ==
    { Wide(n) : n \in Lengths }
    \cup { [hi |-> 32767, lo |-> 65535], [hi |-> 32768, lo |-> 0] }
    \cup { [hi |-> 65535, lo |-> lo] : lo \in (65535 - Spread) .. 65535 }

SuffixBytes == {0, 196, 255}
RawBytes == {0, 2, 128, 193, 196, 197, 198, 255}

NoResult == HeaderResult(0, Wide(0), "none", FALSE)

-----------------------------------------------------------------------------
(* The line tools: what they call from the standard library and the codec *)

\* bufio.Reader.ReadBytes('\n'): the bytes up to and including the first
\* newline; without one, all the bytes left together with the error that
\* ended the stream (io.EOF, or a read error)
ReadBytes_DropsUnterminated(r, ioerr) ==
    IF \E i \in 1..Len(r) : r[i] = 10
    THEN LET i == CHOOSE j \in 1..Len(r) :
                    r[j] = 10 /\ \A m \in 1..(j - 1) : r[m] # 10
         IN  [line |-> SubSeq(r, 1, i), rest |-> SubSeq(r, i + 1, Len(r)), err |-> "nil"]
    ELSE [line |-> <<>>, rest |-> <<>>, err |-> IF ioerr THEN "ioerr" ELSE "EOF"]

ReadBytes(r, ioerr) ==
    IF \E i \in 1..Len(r) : r[i] = 10
    THEN LET i == CHOOSE j \in 1..Len(r) :
                    r[j] = 10 /\ \A m \in 1..(j - 1) : r[m] # 10
         IN  [line |-> SubSeq(r, 1, i), rest |-> SubSeq(r, i + 1, Len(r)), err |-> "nil"]
    ELSE [line |-> r, rest |-> <<>>, err |-> IF ioerr THEN "ioerr" ELSE "EOF"]

(* The JSON texts of the model are written with '[' (91), ']' (93) and the *)
(* newline (10), so a JSON value is an array nested to some depth:         *)
(* "[]" has depth 1, "[[]]" depth 2.  codec.Decoder.Decode reads one value *)
(* from the front of js and leaves what follows it unread; it fails when   *)
(* js does not start with a complete value.                                *)
LeadingOpen(js) ==
    IF \E i \in 1..Len(js) : js[i] # 91
    THEN (CHOOSE i \in 1..Len(js) : js[i] # 91 /\ \A m \in 1..(i - 1) : js[m] = 91) - 1
    ELSE Len(js)

JsonDecode(js) ==
    LET d == LeadingOpen(js)
        ok == /\ d >= 1
              /\ Len(js) >= 2 * d
              /\ \A i \in (d + 1)..(2 * d) : js[i] = 93
    IN  [ok |-> ok, iface |-> IF ok THEN d ELSE 0]

\* codec.Encoder.Encode with a MsgpackHandle: an array of one element is
\* 0x91 followed by the element, the empty array is 0x90
MsgpackEncode(iface) == [i \in 1..iface |-> IF i < iface THEN 145 ELSE 144]

\* bytes.Buffer.Reset
Reset(b) == <<>>

\* jsonToMsgp(cfg, buf, js, lineNum) with w the bytes of cfg.Output and b
\* those of buf; fail names the write the output stream refuses, if any.
\* io.Copy(cfg.Output, buf) is buf.WriteTo, which leaves buf empty.
jsonToMsgp_LineLength(w, b, js, fail) ==
    LET dec  == JsonDecode(js)
        b1   == b \o MsgpackEncode(dec.iface)
        blen == Wide(Len(js))
        w1   == w \o writeMsgpackBinArrayHeader([hi |-> blen.hi % Half, lo |-> blen.lo])
    IN  IF ~dec.ok THEN [panicked |-> TRUE, w |-> w, b |-> b, enc |-> <<>>]
        ELSE IF blen.hi >= Half THEN [panicked |-> TRUE, w |-> w, b |-> b1, enc |-> <<>>]
        ELSE IF fail = "header" THEN [panicked |-> TRUE, w |-> w, b |-> b1, enc |-> <<>>]
        ELSE IF fail = "copy" THEN [panicked |-> TRUE, w |-> w1, b |-> b1, enc |-> <<>>]
        ELSE [panicked |-> FALSE, w |-> w1 \o b1, b |-> <<>>,
              enc |-> MsgpackEncode(dec.iface)]

jsonToMsgp(w, b, js, fail) ==
    LET dec  == JsonDecode(js)                                    \* dec.Decode(&iface)
        b1   == b \o MsgpackEncode(dec.iface)                     \* enc.Encode(iface)
        blen == Wide(Len(b1))                                     \* buf.Len()
        \* writeMsgpackBinArrayHeader(cfg.Output, uint32(blen))
        w1   == w \o writeMsgpackBinArrayHeader([hi |-> blen.hi % Half, lo |-> blen.lo])
    IN  IF ~dec.ok THEN [panicked |-> TRUE, w |-> w, b |-> b, enc |-> <<>>]
        \* blen > 4294967295
        ELSE IF blen.hi >= Half THEN [panicked |-> TRUE, w |-> w, b |-> b1, enc |-> <<>>]
        ELSE IF fail = "header" THEN [panicked |-> TRUE, w |-> w, b |-> b1, enc |-> <<>>]
        ELSE IF fail = "copy" THEN [panicked |-> TRUE, w |-> w1, b |-> b1, enc |-> <<>>]
        ELSE [panicked |-> FALSE, w |-> w1 \o b1, b |-> <<>>,
              enc |-> MsgpackEncode(dec.iface)]

\* jsonDecode(cfg, buf, js, lineNum) of jsonParseBench: TRUE when it panics
jsonDecode(js) == ~JsonDecode(js).ok

JsonBytes == {10, 91, 93}
WriteFailures == {"none", "header", "copy"}

-----------------------------------------------------------------------------
(* Values of the variables a specification does not use *)

HIdle ==
    /\ hpc = "idle" /\ hl = Wide(0) /\ hs = <<>> /\ hp = <<>> /\ hw = <<>>
    /\ hres = NoResult

EIdle ==
    /\ epc = "idle" /\ input = <<>> /\ endErr = FALSE /\ rest = <<>>
    /\ InputPath = "" /\ OutputPath = "" /\ Input = "nil" /\ Output = "nil"
    /\ inOpen = FALSE /\ outOpen = FALSE /\ defers = <<>> /\ buf = <<>>
    /\ lineNum = 1 /\ out = <<>> /\ status = -1 /\ panicked = FALSE
    /\ reported = -1 /\ calls = <<>> /\ bufAtCall = <<>> /\ encs = <<>>

DIdle ==
    /\ dpc = "idle" /\ dstream = <<>> /\ drest = <<>> /\ k = 0 /\ dstatus = -1
    /\ vals = <<>> /\ handed = <<>> /\ failAt = 0 /\ kAtFail = 0

-----------------------------------------------------------------------------
(* json2msgpack: main, ValidateConfig, processFile *)

\* The deferred calls run when a panic unwinds main, last deferred first;
\* each closes the file its field holds.  Whether a file is open afterwards.
OpenAfterDefers(ds, open, field) == open /\ \A i \in 1..Len(ds) : ds[i] # field

EncInit ==
    /\ HIdle
    /\ DIdle
    /\ epc = "main"
    /\ input \in SeqsUpTo(JsonBytes, MaxInput)
    /\ rest = input
    /\ endErr \in BOOLEAN
    /\ InputPath \in {"", "in.json"}
    /\ OutputPath \in {"", "out.msgp"}
    /\ Input = "nil" /\ Output = "nil"
    /\ inOpen = FALSE /\ outOpen = FALSE
    /\ defers = <<>>
    /\ buf = <<>>
    /\ lineNum = 1
    /\ out = <<>>
    /\ status = -1
    /\ panicked = FALSE
    /\ reported = -1
    /\ calls = <<>> /\ bufAtCall = <<>> /\ encs = <<>>

\* main up to the call of processFile: cfg.ValidateConfig(), log.Fatalf on
\* its error, then the two defer statements.  The file system decides
\* FileExists and whether OpenFile and Create succeed.
MainValidate ==
    /\ epc = "main"
    /\ \E inExists \in BOOLEAN, openOk \in BOOLEAN,
          outExists \in BOOLEAN, createOk \in BOOLEAN :
        LET inErr   == InputPath # "" /\ (~inExists \/ ~openOk)
            inFile  == InputPath # "" /\ ~inErr
            outErr  == ~inErr /\ OutputPath # "" /\ (outExists \/ ~createOk)
            outFile == ~inErr /\ OutputPath # "" /\ ~outErr
            err     == inErr \/ outErr
            inPath  == IF InputPath = "" THEN "(stdin)" ELSE InputPath
            outPath == IF inErr THEN OutputPath
                       ELSE IF OutputPath = "" THEN "(stdout)" ELSE OutputPath
        IN  /\ Input' = IF inFile THEN "file" ELSE IF InputPath = "" THEN "stdin" ELSE "nil"
            /\ inOpen' = inFile
            /\ InputPath' = inPath
            /\ Output' = IF outFile THEN "file"
                         ELSE IF ~inErr /\ OutputPath = "" THEN "stdout" ELSE "nil"
            /\ outOpen' = outFile
            /\ OutputPath' = outPath
            /\ IF err
               THEN \* log.Fatalf: os.Exit(1), no deferred call was registered
                    /\ epc' = "exited"
                    /\ status' = 1
                    /\ defers' = defers
               ELSE /\ epc' = "loop"
                    /\ status' = status
                    /\ defers' = (IF inPath # "" THEN <<"Input">> ELSE <<>>)
                                 \o (IF outPath # "" THEN <<"Output">> ELSE <<>>)
    /\ UNCHANGED <<hvars, dvars, input, endErr, rest, buf, lineNum, out, panicked,
                   reported, calls, bufAtCall, encs>>

\* One iteration of the for loop of processFile; when the loop ends,
\* processFile returns and main calls os.Exit(status), which runs no
\* deferred call.  A panic unwinds main and runs them.
EncLoop ==
    /\ epc = "loop"
    /\ \E fail \in WriteFailures :
        LET r == ReadBytes(rest, endErr)
            c == jsonToMsgp(out, buf, r.line, fail)
        IN  /\ rest' = r.rest
            /\ IF r.err = "ioerr"
               THEN \* printError(err); return 2
                    /\ epc' = "exited" /\ status' = 2
                    /\ UNCHANGED <<buf, lineNum, out, panicked, calls, bufAtCall,
                                   encs, inOpen, outOpen>>
               ELSE IF r.err = "EOF" /\ Len(r.line) = 0
               THEN \* break; return 0
                    /\ epc' = "exited" /\ status' = 0
                    /\ UNCHANGED <<buf, lineNum, out, panicked, calls, bufAtCall,
                                   encs, inOpen, outOpen>>
               ELSE /\ calls' = Append(calls, r.line)
                    /\ bufAtCall' = Append(bufAtCall, buf)
                    /\ out' = c.w
                    /\ IF c.panicked
                       THEN /\ epc' = "exited" /\ status' = 2 /\ panicked' = TRUE
                            /\ buf' = c.b
                            /\ inOpen' = OpenAfterDefers(defers, inOpen, "Input")
                            /\ outOpen' = OpenAfterDefers(defers, outOpen, "Output")
                            /\ UNCHANGED <<lineNum, encs>>
                       ELSE /\ buf' = Reset(c.b)
                            /\ lineNum' = lineNum + 1
                            /\ encs' = Append(encs, c.enc)
                            /\ UNCHANGED <<panicked, inOpen, outOpen>>
                            /\ IF r.err = "EOF"
                               THEN epc' = "exited" /\ status' = 0
                               ELSE epc' = "loop" /\ status' = status
    /\ UNCHANGED <<hvars, dvars, input, endErr, InputPath, OutputPath, Input, Output,
                   defers, reported>>

EncNext == MainValidate \/ EncLoop

SpecEnc == EncInit /\ [][EncNext]_vars

-----------------------------------------------------------------------------
(* jsonParseBench: processFile *)

BenchInit ==
    /\ HIdle
    /\ DIdle
    /\ epc = "loop"
    /\ input \in SeqsUpTo(JsonBytes, MaxInput)
    /\ rest = input
    /\ endErr \in BOOLEAN
    /\ InputPath = "(stdin)" /\ OutputPath = ""
    /\ Input = "stdin" /\ Output = "nil"
    /\ inOpen = FALSE /\ outOpen = FALSE
    /\ defers = <<"Input">>
    /\ buf = <<>>
    /\ lineNum = 1
    /\ out = <<>>
    /\ status = -1
    /\ panicked = FALSE
    /\ reported = -1
    /\ calls = <<>> /\ bufAtCall = <<>> /\ encs = <<>>

\* One iteration of the for loop of processFile; after the loop the count
\* lineNum-1 is printed and processFile returns 0.
BenchLoop ==
    /\ epc = "loop"
    /\ LET r == ReadBytes(rest, endErr)
       IN  /\ rest' = r.rest
           /\ IF r.err = "ioerr"
              THEN \* printError(err); return 2
                   /\ epc' = "exited" /\ status' = 2
                   /\ UNCHANGED <<lineNum, panicked, reported, calls>>
              ELSE IF r.err = "EOF" /\ Len(r.line) = 0
              THEN \* break
                   /\ epc' = "exited" /\ status' = 0
                   /\ reported' = lineNum - 1
                   /\ UNCHANGED <<lineNum, panicked, calls>>
              ELSE /\ calls' = Append(calls, r.line)
                   /\ IF jsonDecode(r.line)
                      THEN /\ epc' = "exited" /\ status' = 2 /\ panicked' = TRUE
                           /\ UNCHANGED <<lineNum, reported>>
                      ELSE /\ UNCHANGED panicked
                           /\ IF r.err = "EOF"
                              THEN \* break, before lineNum += 1
                                   /\ epc' = "exited" /\ status' = 0
                                   /\ reported' = lineNum - 1
                                   /\ UNCHANGED lineNum
                              ELSE /\ epc' = "loop" /\ status' = status
                                   /\ lineNum' = lineNum + 1
                                   /\ UNCHANGED reported
    /\ UNCHANGED <<hvars, dvars, input, endErr, InputPath, OutputPath, Input, Output,
                   inOpen, outOpen, defers, buf, out, bufAtCall, encs>>

BenchNext == BenchLoop

SpecBench == BenchInit /\ [][BenchNext]_vars

-----------------------------------------------------------------------------
(* msgpackParseBench: processFile *)

DecBytes == {0, 1, 2, 10, 196}

(* codec.Decoder.Decode into an interface{} with the MsgpackHandle: one    *)
(* msgpack value is read from the front of bs.  A bin8/bin16/bin32 value   *)
(* (0xc4/0xc5/0xc6, a big-endian length, that many bytes) decodes to a     *)
(* []byte holding the bytes after the length; a byte below 0x80 is a       *)
(* positive fixint.  Decode fails on an empty bs (io.EOF) and when bs ends *)
(* inside the value.  Only these tags occur in the streams of the model.   *)
MsgpackBin(bs, width, n) ==
    IF Len(bs) >= width + n
    THEN [ok |-> TRUE, kind |-> "bytes", val |-> SubSeq(bs, width + 1, width + n),
          n |-> width + n]
    ELSE [ok |-> FALSE, kind |-> "none", val |-> <<>>, n |-> 0]

MsgpackDecode(bs) ==
    LET fails == [ok |-> FALSE, kind |-> "none", val |-> <<>>, n |-> 0] IN
    CASE Len(bs) = 0 -> fails
      [] Len(bs) > 0 /\ bs[1] < 128 ->
            [ok |-> TRUE, kind |-> "int", val |-> <<>>, n |-> 1]
      [] Len(bs) > 0 /\ bs[1] = 196 ->
            IF Len(bs) < 2 THEN fails ELSE MsgpackBin(bs, 2, bs[2])
      [] Len(bs) > 0 /\ bs[1] = 197 ->
            IF Len(bs) < 3 THEN fails ELSE MsgpackBin(bs, 3, Uint16(SubSeq(bs, 2, 3)))
      [] Len(bs) > 0 /\ bs[1] = 198 ->
            IF Len(bs) < 5 \/ Uint32(SubSeq(bs, 2, 5)).hi > 0 THEN fails
            ELSE MsgpackBin(bs, 5, Uint32(SubSeq(bs, 2, 5)).lo)

DecInit ==
    /\ HIdle
    /\ EIdle
    /\ dpc = "loop"
    /\ dstream \in SeqsUpTo(DecBytes, MaxStream)
    /\ drest = dstream
    /\ k = 0
    /\ dstatus = -1
    /\ vals = <<>> /\ handed = <<>>
    /\ failAt = 0 /\ kAtFail = 0

\* One iteration of the for loop of processFile.  The break statements
\* inside the switch end the switch, not the loop; the one before it ends
\* the loop, after which k is printed and processFile returns 0.
DecLoop ==
    /\ dpc = "loop"
    /\ LET r   == MsgpackDecode(drest)                  \* decoder.Decode(&r)
           val == r.val
           h   == DecodeMsgpackBinArrayHeader(val)
           sl  == SubSeq(val, h.headerSize + 1, Len(val))   \* val[headerSz:]
           s   == MsgpackDecode(sl)                     \* decodeSlice.Decode(&s)
           fail == h.err # "nil" \/ ~s.ok
       IN  IF ~r.ok
           THEN \* err != nil: break
                /\ dpc' = "returned" /\ dstatus' = 0
                /\ UNCHANGED <<drest, k, vals, handed, failAt, kAtFail>>
           ELSE IF r.kind # "bytes"
           THEN \* default: panic("unexpected ...")
                /\ dpc' = "panicked" /\ dstatus' = 2
                /\ drest' = SubSeq(drest, r.n + 1, Len(drest))
                /\ UNCHANGED <<k, vals, handed, failAt, kAtFail>>
           ELSE /\ drest' = SubSeq(drest, r.n + 1, Len(drest))
                /\ vals' = Append(vals, val)
                /\ IF h.panicked
                   THEN \* p[0] of an empty slice
                        /\ dpc' = "panicked" /\ dstatus' = 2
                        /\ UNCHANGED <<k, handed, failAt, kAtFail>>
                   ELSE /\ dpc' = "loop" /\ dstatus' = dstatus
                        /\ handed' = IF h.err # "nil" THEN handed ELSE Append(handed, sl)
                        /\ k' = IF fail THEN k ELSE k + 1
                        /\ failAt' = IF fail /\ failAt = 0 THEN Len(vals) + 1 ELSE failAt
                        /\ kAtFail' = IF fail /\ failAt = 0 THEN k ELSE kAtFail
    /\ UNCHANGED <<hvars, evars, dstream>>

DecNext == DecLoop

SpecDec == DecInit /\ [][DecNext]_vars

-----------------------------------------------------------------------------
(* SpecHeader: the header codec applied to bounded inputs *)

HInit ==
    /\ EIdle
    /\ DIdle
    /\ hpc = "start"
    /\ hw = <<>>
    /\ hres = NoResult
    /\ \/ /\ hl \in Uint32Lengths
          /\ hs \in SeqsUpTo(SuffixBytes, MaxSuffix)
          /\ hp = <<>>
       \/ /\ hl = Wide(0)
          /\ hs = <<>>
          /\ hp \in SeqsUpTo(RawBytes, MaxRaw)

\* writeMsgpackBinArrayHeader(w, l)
HWrite ==
    /\ hpc = "start"
    /\ hw' = hw \o writeMsgpackBinArrayHeader(hl)
    /\ hpc' = "written"
    /\ UNCHANGED <<hl, hs, hp, hres, evars, dvars>>

\* DecodeMsgpackBinArrayHeader on the written header followed by hs
HDecodeWritten ==
    /\ hpc = "written"
    /\ hres' = DecodeMsgpackBinArrayHeader(hw \o hs)
    /\ hpc' = "decoded"
    /\ UNCHANGED <<hl, hs, hp, hw, evars, dvars>>

\* DecodeMsgpackBinArrayHeader on an arbitrary slice
HDecodeRaw ==
    /\ hpc = "start"
    /\ hres' = DecodeMsgpackBinArrayHeader(hp)
    /\ hpc' = "rawdecoded"
    /\ UNCHANGED <<hl, hs, hp, hw, evars, dvars>>

HNext == HWrite \/ HDecodeWritten \/ HDecodeRaw

SpecHeader == HInit /\ [][HNext]_vars

-----------------------------------------------------------------------------
(* Properties of the header codec, checked under SpecHeader *)

\* C1: for every payload length L, writeMsgpackBinArrayHeader writes exactly
\* one header of minimal width: [0xC4, L] when L < 256, [0xC5, L in 2 bytes
\* big-endian] when 256 <= L < 65536, [0xC6, L in 4 bytes big-endian] when
\* 65536 <= L < 2^32; L = 0 gives [0xC4, 0x00], and 255/256 and 65535/65536
\* fall on opposite sides of the 2->3 and 3->5 byte transitions.
C1_MinimalHeader ==
    hpc = "written" =>
        /\ \A i \in 1..Len(hw) : hw[i] \in 0..255
        /\ (hl.hi = 0 /\ hl.lo < 256) => hw = <<196, hl.lo>>
        /\ (hl.hi = 0 /\ hl.lo >= 256) =>
                /\ Len(hw) = 3
                /\ hw[1] = 197
                /\ hw[2] * 256 + hw[3] = hl.lo
        /\ hl.hi > 0 =>
                /\ Len(hw) = 5
                /\ hw[1] = 198
                /\ hw[2] * 256 + hw[3] = hl.hi
                /\ hw[4] * 256 + hw[5] = hl.lo
        /\ (hl.hi = 0 /\ hl.lo = 0) => hw = <<196, 0>>
        /\ (hl.hi = 0 /\ hl.lo = 255) => Len(hw) = 2
        /\ (hl.hi = 0 /\ hl.lo = 256) => Len(hw) = 3
        /\ (hl.hi = 0 /\ hl.lo = 65535) => Len(hw) = 3
        /\ (hl.hi = 1 /\ hl.lo = 0) => Len(hw) = 5

\* a header was written for the length 65536, the first one of 5 bytes
C1_Witness ==
    /\ hpc = "written"
    /\ hl.hi = 1 /\ hl.lo = 0
    /\ hw = <<198, 0, 1, 0, 0>>

\* C2: header round trip: DecodeMsgpackBinArrayHeader applied to the bytes
\* written by writeMsgpackBinArrayHeader(L) followed by any bytes S returns
\* err = nil, headerSize = the number of header bytes written (2, 3 or 5),
\* payloadSize = L and totalFrameSize = headerSize + L.
C2_HeaderRoundTrip ==
    hpc = "decoded" =>
        /\ hres.err = "nil"
        /\ ~hres.panicked
        /\ hres.headerSize = Len(hw)
        /\ hres.headerSize \in {2, 3, 5}
        /\ hres.payloadSize = hl
        /\ hres.totalFrameSize.lo = (hl.lo + Len(hw)) % 65536
        /\ hres.totalFrameSize.hi =
              IF hl.lo + Len(hw) >= 65536 THEN hl.hi + 1 ELSE hl.hi

\* the header of a 16-bit length whose two bytes differ, followed by bytes
\* that look like another header, was decoded
C2_Witness ==
    /\ hpc = "decoded"
    /\ hl.hi = 0 /\ hl.lo = 258
    /\ hs = <<196, 255>>
    /\ hres.payloadSize = hl

\* C3: for every non-empty slice whose first byte is not 0xC4, 0xC5 or 0xC6,
\* DecodeMsgpackBinArrayHeader fails with an error; it never returns a nil
\* error with a header width and a payload length for such a slice.
C3_UnknownTagFails ==
    (hpc = "rawdecoded" /\ Len(hp) > 0 /\ hp[1] \notin {196, 197, 198})
        => hres.err # "nil"

-----------------------------------------------------------------------------
(* Properties of json2msgpack, checked under SpecEnc *)

\* The lines of a byte stream s: the spans that end at each newline, and the
\* bytes after the last newline when there are any.
NewlineEnds(s) == { i \in 1..Len(s) : s[i] = 10 }

NthEnd(s, q) ==
    CHOOSE i \in NewlineEnds(s) : Cardinality({ j \in NewlineEnds(s) : j <= i }) = q

LinesOf(s) ==
    LET n    == Cardinality(NewlineEnds(s))
        last == IF n = 0 THEN 0 ELSE NthEnd(s, n)
        m    == IF last < Len(s) THEN n + 1 ELSE n
    IN  [ q \in 1..m |->
            SubSeq(s, IF q = 1 THEN 1 ELSE NthEnd(s, q - 1) + 1,
                      IF q <= n THEN NthEnd(s, q) ELSE Len(s)) ]

\* C5: on every input on which no read, decode or encode error occurs,
\* processFile calls jsonToMsgp exactly once per line, in input order, the
\* lines being the newline-terminated spans plus a final non-empty span
\* without a newline; the zero-byte read at the end of the stream emits no
\* frame, and the loop returns status 0.
C5_OneCallPerLine ==
    (epc = "exited" /\ ~panicked /\ status \notin {1, 2}) =>
        /\ status = 0
        /\ calls = LinesOf(input)
        /\ Len(encs) = Len(calls)
        /\ lineNum = Len(calls) + 1

\* a clean run over two lines, the second without its newline
C5_Witness ==
    /\ epc = "exited" /\ status = 0 /\ ~panicked
    /\ Len(calls) = 2
    /\ input[Len(input)] # 10

\* C8: every input or output file that ValidateConfig opened is closed when
\* the process ends, on every exit path of main.
C8_FilesClosedAtExit ==
    epc = "exited" => (~inOpen /\ ~outOpen)

\* The header of the table of the specification for a length n < 2^31
TableHeader(n) ==
    IF n < 256 THEN <<196, n>>
    ELSE IF n < 65536 THEN <<197, n \div 256, n % 256>>
    ELSE <<198, n \div 16777216, (n \div 65536) % 256, (n \div 256) % 256, n % 256>>

RECURSIVE FramesOf(_)
FramesOf(ps) ==
    IF ps = <<>> THEN <<>>
    ELSE TableHeader(Len(Head(ps))) \o Head(ps) \o FramesOf(Tail(ps))

\* C9: the reusable payload buffer is empty at the start of every jsonToMsgp
\* call, so the bytes appended to the output for each record are exactly
\* header(n) followed by the n payload bytes of that record alone; after any
\* number of completed iterations the output is a concatenation of complete
\* frames.
C9_FrameIntegrity ==
    /\ \A i \in 1..Len(bufAtCall) : bufAtCall[i] = <<>>
    /\ ~panicked =>
        /\ Len(encs) = Len(calls)
        /\ \A i \in 1..Len(encs) : encs[i] = MsgpackEncode(JsonDecode(calls[i]).iface)
        /\ out = FramesOf(encs)
        /\ buf = <<>>

\* two records of different payload lengths were framed one after the other
C9_Witness ==
    /\ ~panicked
    /\ Len(encs) = 2
    /\ out = <<196, 2, 145, 144, 196, 1, 144>>

-----------------------------------------------------------------------------
(* Properties of jsonParseBench, checked under SpecBench *)

\* C10: on every input on which no error occurs, the number processFile
\* reports ("parsed %d lines of json", lineNum-1) equals the number of lines
\* it handed to jsonDecode, with and without a final newline.
C10_ReportedCount ==
    (epc = "exited" /\ status = 0 /\ ~panicked) => reported = Len(calls)

-----------------------------------------------------------------------------
(* Properties of msgpackParseBench, checked under SpecDec *)

\* How a stream of frames ends, read with the header table: "clean" after a
\* whole number of frames, "truncated" inside a header or a payload, "badtag"
\* at a byte that is no frame tag.
FrameWidth(tag) == IF tag = 196 THEN 2 ELSE IF tag = 197 THEN 3 ELSE 5

FrameLength(s) ==
    IF s[1] = 196 THEN s[2]
    ELSE IF s[1] = 197 THEN s[2] * 256 + s[3]
    ELSE IF s[2] > 0 \/ s[3] > 0 THEN 65536
    ELSE s[4] * 256 + s[5]

RECURSIVE StreamEnd(_)
StreamEnd(s) ==
    IF s = <<>> THEN "clean"
    ELSE IF s[1] \notin {196, 197, 198} THEN "badtag"
    ELSE IF Len(s) < FrameWidth(s[1]) THEN "truncated"
    ELSE IF Len(s) < FrameWidth(s[1]) + FrameLength(s) THEN "truncated"
    ELSE StreamEnd(SubSeq(s, FrameWidth(s[1]) + FrameLength(s) + 1, Len(s)))

\* the payloads of a stream that ends "clean"
RECURSIVE PayloadsOf(_)
PayloadsOf(s) ==
    IF s = <<>> THEN <<>>
    ELSE LET w == FrameWidth(s[1])
             n == FrameLength(s)
         IN  <<SubSeq(s, w + 1, w + n)>> \o PayloadsOf(SubSeq(s, w + n + 1, Len(s)))

Finished == dpc \in {"returned", "panicked"}

\* C4: for any sequence of N payloads framed back to back, the decode loop
\* hands exactly those N payloads, complete and unmodified, in order, to the
\* inner payload decoder and ends with k = N, whatever the payloads hold:
\* a first byte 0xC4, 0xC5 or 0xC6, newline bytes, or no bytes at all.
C4_ConcatenatedStream ==
    (/\ Finished
     /\ StreamEnd(dstream) = "clean"
     /\ dstream = FramesOf(PayloadsOf(dstream)))
        => /\ dpc = "returned"
           /\ handed = PayloadsOf(dstream)
           /\ k = Len(PayloadsOf(dstream))

\* C6: once the header decode or the payload interpretation of a frame
\* fails, no later frame is read, interpreted or counted, and the count
\* reported at the end is the number of frames decoded before the failure.
C6_AbortOnFirstFailure ==
    failAt > 0 => (Len(vals) = failAt /\ k = kAtFail)

\* C7: a stream that ends inside a header or with fewer payload bytes than
\* its last header declares ends the run in an error outcome, distinct from
\* the outcome of a clean end of stream (status 0).
C7_TruncationDistinct ==
    (Finished /\ StreamEnd(dstream) = "truncated") => dstatus # 0

=============================================================================
